---- MODULE Spec2Model ----
(***************************************************************************)
(* A model of src/cadscene.hpp: CadScene::BBox (merge, transformed), the   *)
(* buffer ownership of CadScene::Geometry / CadScene::MeshletTopology, the *)
(* scene container's load/unload life cycle and its byte-size accessors.   *)
(*                                                                         *)
(* Floats are modelled as exact integers: no rounding, no overflow to      *)
(* infinity and no NaN.  nvmath (nv_min, nv_max, mat4f * vec4f) is an      *)
(* external library and is modelled by its mathematical meaning.           *)
(***************************************************************************)
EXTENDS Integers, Sequences, FiniteSets, TLC

VARIABLES pc, op, arg, box, prev, res,   \* a BBox and the last call on it
          geometry, heap, frees, crashed,  \* Geometry objects and their buffers
          scene, fresh, ret                \* a CadScene and the last call on it

bboxVars == <<arg, box, prev, res>>

ownerVars == <<geometry, heap, frees, crashed>>

sceneVars == <<scene, fresh, ret>>

vars == <<pc, op, bboxVars, ownerVars, sceneVars>>

----------------------------------------------------------------------------
(* Bounds of the model *)

\* Point coordinates range over 0..MaxCoord.
MaxCoord == 1

\* Geometry objects alive at the same time.
MaxGeometries == 2

\* Buffers allocated in one run.
MaxBuffers == 2

\* free() calls followed per buffer.
MaxFrees == 2

\* Materials, geometries and nodes of a scene file range over 1..MaxItems.
MaxItems == 2

\* clones ranges over 0..MaxClones.
MaxClones == 1

\* extraAttributes ranges over 0..MaxExtra.
MaxExtra == 1

\* Vertex indices passed to getVertex range over 0..MaxIndex.
MaxIndex == 2

----------------------------------------------------------------------------
(* nvmath::vec4f and nvmath::mat4f *)

Axes == 1..4

\* The largest finite float.  In the model it lies above every value the
\* operations compute from the input points and matrices (rows of the input
\* matrices have absolute sum at most 4), as it does in the program as long
\* as no product or sum overflows.
FLT_MAX == 4 * MaxCoord + 1

\* nvmath::vec4f(float): all four components set to the same value.
Vec4(v) == <<v, v, v, v>>

fmin(a, b) == IF a < b THEN a ELSE b

fmax(a, b) == IF a > b THEN a ELSE b

\* nvmath::nv_min on vec4f: componentwise minimum.
nv_min(a, b) == <<fmin(a[1], b[1]), fmin(a[2], b[2]), fmin(a[3], b[3]), fmin(a[4], b[4])>>

\* nvmath::nv_max on vec4f: componentwise maximum.
nv_max(a, b) == <<fmax(a[1], b[1]), fmax(a[2], b[2]), fmax(a[3], b[3]), fmax(a[4], b[4])>>

Dot4(r, p) == r[1] * p[1] + r[2] * p[2] + r[3] * p[3] + r[4] * p[4]

\* nvmath::mat4f * nvmath::vec4f; a matrix is the tuple of its four rows.
MatVec(m, p) == <<Dot4(m[1], p), Dot4(m[2], p), Dot4(m[3], p), Dot4(m[4], p)>>

----------------------------------------------------------------------------
(* CadScene::BBox *)

\* BBox(): min(FLT_MAX), max(-FLT_MAX).
BBoxCtor == [min |-> Vec4(FLT_MAX), max |-> Vec4(-FLT_MAX)]

\* Mutant of mergePoint: max is merged with nv_min.
mergePointWrongMax(b, point) == [min |-> nv_min(b.min, point), max |-> nv_min(b.max, point)]

\* void merge(const nvmath::vec4f& point)
mergePoint(b, point) == [min |-> nv_min(b.min, point), max |-> nv_max(b.max, point)]

\* Mutant of mergeBBox: min is merged with bbox.max instead of bbox.min.
mergeBBoxWrongField(b, bbox) == [min |-> nv_min(b.min, bbox.max), max |-> nv_max(b.max, bbox.max)]

\* Mutant of mergeBBox: min is overwritten instead of merged.
mergeBBoxAssign(b, bbox) == [min |-> bbox.min, max |-> nv_max(b.max, bbox.max)]

\* void merge(const BBox& bbox)
mergeBBox(b, bbox) == [min |-> nv_min(b.min, bbox.min), max |-> nv_max(b.max, bbox.max)]

\* Mutant of Corner: z is always taken from min.
CornerFlatZ(b, i) ==
  << IF i % 2 = 1 THEN b.max[1] ELSE b.min[1],
     IF (i \div 2) % 2 = 1 THEN b.max[2] ELSE b.min[2],
     b.min[3],
     IF (i \div 8) % 2 = 1 THEN b.max[4] ELSE b.min[4] >>

\* box[i] of transformed: bit 0 of i picks max.x, bit 1 max.y, bit 2 max.z,
\* bit 3 max.w; a clear bit picks the component of min.
Corner(b, i) ==
  << IF i % 2 = 1 THEN b.max[1] ELSE b.min[1],
     IF (i \div 2) % 2 = 1 THEN b.max[2] ELSE b.min[2],
     IF (i \div 4) % 2 = 1 THEN b.max[3] ELSE b.min[3],
     IF (i \div 8) % 2 = 1 THEN b.max[4] ELSE b.min[4] >>

RECURSIVE TransformLoop(_, _, _, _, _)
\* for(i = 0; i < (1 << dim); i++) bbox.merge(matrix * box[i]);
TransformLoop(b, matrix, i, n, bbox) ==
  IF i < n
    THEN TransformLoop(b, matrix, i + 1, n, mergePoint(bbox, MatVec(matrix, Corner(b, i))))
    ELSE bbox

\* Mutant of transformed: the loop stops one corner early.
transformedOffByOne(b, matrix, dim) == TransformLoop(b, matrix, 0, 2 ^ dim - 1, BBoxCtor)

\* BBox transformed(const nvmath::mat4f& matrix, int dim = 3) const
transformed(b, matrix, dim) == TransformLoop(b, matrix, 0, 2 ^ dim, BBoxCtor)

Valid(b) == \A i \in Axes : b.min[i] <= b.max[i]

\* No component is a sentinel of the empty box, so no product of transformed
\* overflows.
Finite(b) == \A i \in Axes : b.min[i] # FLT_MAX /\ b.max[i] # -FLT_MAX

----------------------------------------------------------------------------
(* Inputs of the BBox operations *)

Coord == 0..MaxCoord

Points == {<<x, y, z, w>> : x \in Coord, y \in Coord, z \in Coord, w \in Coord}

Zero == Vec4(0)

Top == Vec4(MaxCoord)

\* The box spanned by two points.
Hull(p, q) == [min |-> nv_min(p, q), max |-> nv_max(p, q)]

\* Argument boxes: the empty box, the point boxes and the boxes from the
\* origin or up to the top corner.
ArgBoxes ==
  {BBoxCtor} \cup {Hull(p, q) : p \in Points, q \in {Zero, Top}}
             \cup {Hull(p, p) : p \in Points}

\* An axis-aligned scaling by s followed by a translation by t.
ScaleTrans(s, t) ==
  << <<s[1], 0, 0, t[1]>>,
     <<0, s[2], 0, t[2]>>,
     <<0, 0, s[3], t[3]>>,
     <<0, 0, 0, 1>> >>

ScaleFactors == {-1, 0, 2}

Translations == {<<0, 0, 0>>, <<1, -1, 2>>}

\* A rotation about z, a shear, a matrix that mixes all axes, a projective
\* matrix and a scaling of w.
OtherMatrices ==
  { << <<1, -1, 1, 0>>, <<1, 1, 1, 0>>, <<-1, 1, 1, 1>>, <<0, 0, 0, 1>> >>,
    << <<0, -1, 0, 0>>, <<1, 0, 0, 0>>, <<0, 0, 1, 0>>, <<0, 0, 0, 1>> >>,
    << <<1, 1, 0, 0>>, <<0, 1, -1, 0>>, <<0, 0, 1, 0>>, <<0, 0, 0, 1>> >>,
    << <<1, 0, 0, 0>>, <<0, 1, 0, 0>>, <<0, 0, 1, 0>>, <<0, 0, -1, 0>> >>,
    << <<1, 0, 0, 0>>, <<0, 1, 0, 0>>, <<0, 0, 1, 0>>, <<1, 0, 0, 2>> >> }

Matrices ==
  {ScaleTrans(<<sx, sy, sz>>, t) :
     sx \in ScaleFactors, sy \in ScaleFactors, sz \in ScaleFactors, t \in Translations}
  \cup OtherMatrices

Identity == ScaleTrans(<<1, 1, 1>>, <<0, 0, 0>>)

\* dim: 2 (first four corners), 3 (the default) or 4 (all of box[16]).
Dims == {2, 3, 4}

NoArg == [point |-> Zero, bbox |-> BBoxCtor, matrix |-> Identity, dim |-> 0]

----------------------------------------------------------------------------
(* CadScene::Geometry and its member CadScene::MeshletTopology: raw        *)
(* buffers, freed by the destructors.  Neither type declares a copy        *)
(* constructor or a copy assignment, so the implicit memberwise ones       *)
(* apply.  A pointer is 0 (nullptr) or the number of an allocation.        *)

Geometries == 1..MaxGeometries

Buffers == 1..MaxBuffers

\* vboData, aboData, iboData of Geometry; primData, descData of its meshlet.
GeometryFields == {"vboData", "aboData", "iboData", "primData", "descData"}

\* void* vboData = nullptr; ... and the MeshletTopology member's defaults.
GeometryCtor ==
  [live |-> TRUE, vboData |-> 0, aboData |-> 0, iboData |-> 0, primData |-> 0, descData |-> 0]

\* Storage that holds no object.
NoGeometry == [GeometryCtor EXCEPT !.live = FALSE]

\* The pointers the destructors pass to free(), in order: ~Geometry frees
\* vboData, aboData, iboData, then ~MeshletTopology frees primData, descData;
\* each only if(ptr).
FreedPointers(g) ==
  SelectSeq(<<g.vboData, g.aboData, g.iboData, g.primData, g.descData>>, LAMBDA ptr : ptr # 0)

RECURSIVE FreeCount(_, _)
\* Number of free() calls on buffer b in a sequence of freed pointers.
FreeCount(ptrs, b) ==
  IF ptrs = <<>> THEN 0
  ELSE (IF Head(ptrs) = b THEN 1 ELSE 0) + FreeCount(Tail(ptrs), b)

OwnerIdle ==
  /\ geometry = [g \in Geometries |-> NoGeometry]
  /\ heap = [b \in Buffers |-> "unused"]
  /\ frees = [b \in Buffers |-> 0]
  /\ crashed = FALSE

\* Geometry g;
ConstructGeometry(g) ==
  /\ ~crashed
  /\ ~geometry[g].live
  /\ geometry' = [geometry EXCEPT ![g] = GeometryCtor]
  /\ UNCHANGED <<heap, frees, crashed, pc, op, bboxVars, sceneVars>>

\* g.<field> = malloc(size), for a field that is still nullptr.
FillBuffer(g, f) ==
  /\ ~crashed
  /\ geometry[g].live
  /\ geometry[g][f] = 0
  /\ \E b \in Buffers :
       /\ heap[b] = "unused"
       /\ \A c \in Buffers : c < b => heap[c] # "unused"
       /\ heap' = [heap EXCEPT ![b] = "allocated"]
       /\ geometry' = [geometry EXCEPT ![g][f] = b]
  /\ UNCHANGED <<frees, crashed, pc, op, bboxVars, sceneVars>>

\* Geometry d(s): the implicit copy constructor copies every member,
\* pointers included (as std::vector<Geometry> does when it grows).
CopyGeometry(s, d) ==
  /\ ~crashed
  /\ geometry[s].live
  /\ ~geometry[d].live
  /\ geometry' = [geometry EXCEPT ![d] = geometry[s]]
  /\ UNCHANGED <<heap, frees, crashed, pc, op, bboxVars, sceneVars>>

\* d = s: the implicit copy assignment copies every member.
AssignGeometry(s, d) ==
  /\ ~crashed
  /\ s # d
  /\ geometry[s].live
  /\ geometry[d].live
  /\ geometry' = [geometry EXCEPT ![d] = geometry[s]]
  /\ UNCHANGED <<heap, frees, crashed, pc, op, bboxVars, sceneVars>>

\* ~Geometry(), then ~MeshletTopology() of the member.  free() of a buffer
\* that is already freed is undefined: the run may abort there or go on.
DestroyGeometry(g) ==
  /\ ~crashed
  /\ geometry[g].live
  /\ \A b \in Buffers : frees[b] + FreeCount(FreedPointers(geometry[g]), b) <= MaxFrees
  /\ LET ptrs == FreedPointers(geometry[g])
         twice == \E i \in 1..Len(ptrs) : heap[ptrs[i]] = "freed"
     IN  /\ frees' = [b \in Buffers |-> frees[b] + FreeCount(ptrs, b)]
         /\ heap' = [b \in Buffers |-> IF FreeCount(ptrs, b) > 0 THEN "freed" ELSE heap[b]]
         /\ crashed' \in (IF twice THEN {TRUE, FALSE} ELSE {FALSE})
  /\ geometry' = [geometry EXCEPT ![g] = NoGeometry]
  /\ UNCHANGED <<pc, op, bboxVars, sceneVars>>

----------------------------------------------------------------------------
(* Byte sizes of the records of CadScene *)

SizeofFloat == 4

SizeofUint32 == 4

\* typedef unsigned short half;
SizeofHalf == 2

\* nvmath::vec3f, vec4f and mat4f: 3, 4 and 16 floats.
SizeofVec3f == 3 * SizeofFloat

SizeofVec4f == 4 * SizeofFloat

SizeofMat4f == 16 * SizeofFloat

\* A member of the given size; every member here is made of 4-byte scalars.
Member(size) == [size |-> size, align |-> SizeofFloat]

AlignUp(n, a) == ((n + a - 1) \div a) * a

RECURSIVE EndOffset(_, _)
\* The offset after the last member, each member placed at the next offset
\* its alignment allows.
EndOffset(members, offset) ==
  IF members = <<>> THEN offset
  ELSE EndOffset(Tail(members), AlignUp(offset, Head(members).align) + Head(members).size)

\* sizeof of a struct with these members.
StructSize(members) == AlignUp(EndOffset(members, 0), SizeofFloat)

\* struct MaterialSide { vec4f ambient, diffuse, specular, emissive; }
SizeofMaterialSide ==
  StructSize(<<Member(SizeofVec4f), Member(SizeofVec4f), Member(SizeofVec4f), Member(SizeofVec4f)>>)

\* Mutant of SizeofMaterial: the padding is 8 * 3 words.
SizeofMaterialShortPad ==
  StructSize(<<Member(2 * SizeofMaterialSide), Member(8 * 3 * SizeofUint32)>>)

\* struct Material { MaterialSide sides[2]; uint32_t _pad[8 * 4]; }
SizeofMaterial ==
  StructSize(<<Member(2 * SizeofMaterialSide), Member(8 * 4 * SizeofUint32)>>)

\* struct MatrixNode { mat4f worldMatrix, worldMatrixIT, objectMatrix;
\*   vec4f bboxMin, bboxMax; vec3f _pad0; float winding; vec4f color; }
SizeofMatrixNode ==
  StructSize(<<Member(SizeofMat4f), Member(SizeofMat4f), Member(SizeofMat4f),
               Member(SizeofVec4f), Member(SizeofVec4f), Member(SizeofVec3f),
               Member(SizeofFloat), Member(SizeofVec4f)>>)

\* struct Vertex { vec4f position; }
SizeofVertex == StructSize(<<Member(SizeofVec4f)>>)

\* struct VertexAttributes { vec4f normal; }
SizeofVertexAttributes == StructSize(<<Member(SizeofVec4f)>>)

\* struct VertexFP16 { half position[4]; }
SizeofVertexFP16 == 4 * SizeofHalf

\* struct VertexAttributesFP16 { half normal[4]; }
SizeofVertexAttributesFP16 == 4 * SizeofHalf

----------------------------------------------------------------------------
(* CadScene: the containers, the totals and the accessors *)

\* LoadConfig with its defaults (of its members, fp16 and extraAttributes
\* decide the sizes).
LoadConfigCtor == [fp16 |-> FALSE, extraAttributes |-> 0]

\* The value of a member without initializer: zero or not.
Indeterminate == {0, 1}

\* A CadScene as constructed: vectors empty, m_vboSize, m_iboSize,
\* m_meshSize, m_numGeometryParts, m_numObjectParts = 0 by their
\* initializers; m_numOrigGeometries, m_numOrigMatrices, m_numOrigObjects
\* have none, their values u are indeterminate.
CadSceneCtor(u) ==
  [ m_materials |-> <<>>, m_bboxes |-> <<>>, m_geometry |-> <<>>,
    m_matrices |-> <<>>, m_objects |-> <<>>,
    m_vboSize |-> 0, m_iboSize |-> 0, m_meshSize |-> 0,
    m_numGeometryParts |-> 0, m_numObjectParts |-> 0,
    m_cfg |-> LoadConfigCtor,
    m_numOrigGeometries |-> u[1], m_numOrigMatrices |-> u[2], m_numOrigObjects |-> u[3] ]

\* Mutant of getVertexSize: the two branches exchanged.
getVertexSizeSwapped(s) == IF s.m_cfg.fp16 THEN SizeofVertex ELSE SizeofVertexFP16

\* size_t getVertexSize() const
getVertexSize(s) == IF s.m_cfg.fp16 THEN SizeofVertexFP16 ELSE SizeofVertex

\* size_t getVertexAttributeSize() const
getVertexAttributeSize(s) ==
  IF s.m_cfg.fp16
    THEN SizeofVertexAttributesFP16 + SizeofHalf * 4 * s.m_cfg.extraAttributes
    ELSE SizeofVertexAttributes + SizeofFloat * 4 * s.m_cfg.extraAttributes

\* void* getVertex(void* data, size_t index) const
getVertex(s, data, index) == data + getVertexSize(s) * index

\* void* getVertexAttribute(void* data, size_t index) const
getVertexAttribute(s, data, index) == data + getVertexAttributeSize(s) * index

\* void unload(): releases every geometry, clears the containers and resets
\* the size and count fields to zero.
unload(s) ==
  [ s EXCEPT !.m_materials = <<>>, !.m_bboxes = <<>>, !.m_geometry = <<>>,
             !.m_matrices = <<>>, !.m_objects = <<>>,
             !.m_vboSize = 0, !.m_iboSize = 0, !.m_meshSize = 0,
             !.m_numGeometryParts = 0, !.m_numObjectParts = 0,
             !.m_numOrigGeometries = 0, !.m_numOrigMatrices = 0, !.m_numOrigObjects = 0 ]

\* The vertices and indices of every geometry of a scene file: one triangle.
TriangleVertices == 3

RECURSIVE SumOver(_, _)
\* The sum of field f over a sequence of records.
SumOver(seq, f) == IF seq = <<>> THEN 0 ELSE Head(seq)[f] + SumOver(Tail(seq), f)

\* The Geometry built for geometry i of the file: one part, 32-bit indices,
\* no meshlets, the buffers sized by the configuration's strides.
BuildGeometry(s, i) ==
  [ partOffset |-> i - 1, numVertices |-> TriangleVertices, numIndexSolid |-> TriangleVertices,
    vboSize |-> TriangleVertices * getVertexSize(s),
    aboSize |-> TriangleVertices * getVertexAttributeSize(s),
    iboSize |-> TriangleVertices * SizeofUint32,
    meshSize |-> 0, parts |-> 1 ]

\* The load after the file is parsed, up to and including geometry n:
\* the configuration, the materials, and geometries 1..n with their part
\* boxes and the running totals.
BuildGeometries(s, file, cfg, n) ==
  LET c == [s EXCEPT !.m_cfg = cfg]
      geoms == [i \in 1..n |-> BuildGeometry(c, i)]
  IN  [ c EXCEPT !.m_materials = [i \in 1..file.numMaterials |-> [sides |-> <<i, file.numMaterials - i>>]],
                 !.m_geometry = geoms,
                 !.m_bboxes = [i \in 1..n |-> Hull(Zero, Top)],
                 !.m_vboSize = SumOver(geoms, "vboSize") + SumOver(geoms, "aboSize"),
                 !.m_iboSize = SumOver(geoms, "iboSize"),
                 !.m_meshSize = SumOver(geoms, "meshSize"),
                 !.m_numGeometryParts = SumOver(geoms, "parts") ]

\* The rest of a load: one matrix and one object per node, the whole set
\* repeated for every clone, and the counts before cloning.
BuildObjects(s, file, clones) ==
  LET total == (clones + 1) * file.numNodes
  IN  [ s EXCEPT !.m_matrices = [i \in 1..total |-> [winding |-> 1, node |-> ((i - 1) % file.numNodes) + 1]],
                 !.m_objects = [i \in 1..total |->
                                  [matrixIndex |-> i - 1,
                                   geometryIndex |-> ((i - 1) % file.numNodes) % file.numGeometries,
                                   parts |-> 1]],
                 !.m_numObjectParts = total,
                 !.m_numOrigGeometries = file.numGeometries,
                 !.m_numOrigMatrices = file.numNodes,
                 !.m_numOrigObjects = file.numNodes ]

\* Mutant of LoadFailed: what was built before the failure is kept.
LoadFailedKeepsPartial(s) == [ok |-> FALSE, scene |-> s]

\* A failed load: everything built so far is released and the scene is
\* rolled back to the empty state; the result is false.
LoadFailed(s) == [ok |-> FALSE, scene |-> unload(s)]

\* bool loadCSF(filename, cfg, clones, cloneaxis): the file may be unreadable
\* (SourceUnreadable) or malformed (SourceMalformed), and building geometry
\* file.failAt may fail (IndexOverflow, AllocationFailure); 0: none fails.
loadCSF(s, file, cfg, clones) ==
  IF file.status = "unreadable" THEN LoadFailed(s)
  ELSE IF file.status = "malformed" THEN LoadFailed(s)
  ELSE IF file.failAt \in 1..file.numGeometries
    THEN LoadFailed(BuildGeometries(s, file, cfg, file.failAt - 1))
  ELSE [ok |-> TRUE,
        scene |-> BuildObjects(BuildGeometries(s, file, cfg, file.numGeometries), file, clones)]

\* The scene files.
Files ==
  [ status : {"ok", "unreadable", "malformed"},
    numMaterials : 1..MaxItems, numGeometries : 1..MaxItems, numNodes : 1..MaxItems,
    failAt : 0..MaxItems ]

Configs == [fp16 : BOOLEAN, extraAttributes : 0..MaxExtra]

\* Addresses of vertex buffers.
Addresses == {0, 4096}

\* What a call returned and was given: ok of loadCSF with the state of its
\* file and the geometry that failed, ptr of getVertex / getVertexAttribute
\* with data and index.
NoRet == [ok |-> TRUE, status |-> "ok", failAt |-> 0, ptr |-> 0, data |-> 0, index |-> 0]

ContainersEmpty(s) ==
  /\ s.m_materials = <<>> /\ s.m_bboxes = <<>> /\ s.m_geometry = <<>>
  /\ s.m_matrices = <<>> /\ s.m_objects = <<>>

\* CadScene scene;
SceneInit ==
  /\ pc = "done"
  /\ op = "CadScene"
  /\ \E u \in Indeterminate \X Indeterminate \X Indeterminate :
       /\ scene = CadSceneCtor(u)
       /\ fresh = CadSceneCtor(u)
  /\ ret = NoRet

\* ok = scene.loadCSF(filename, cfg, clones), on a scene that holds nothing
\* (unload must precede a second load).
LoadCSF(file, cfg, clones) ==
  /\ pc = "idle"
  /\ ContainersEmpty(scene)
  /\ LET r == loadCSF(scene, file, cfg, clones)
     IN  /\ scene' = r.scene
         /\ ret' = [NoRet EXCEPT !.ok = r.ok, !.status = file.status,
                                 !.failAt = IF file.failAt <= file.numGeometries THEN file.failAt ELSE 0]
  /\ op' = "loadCSF"
  /\ pc' = "done"
  /\ UNCHANGED <<fresh, bboxVars, ownerVars>>

\* scene.unload()
Unload ==
  /\ pc = "idle"
  /\ scene' = unload(scene)
  /\ ret' = NoRet
  /\ op' = "unload"
  /\ pc' = "done"
  /\ UNCHANGED <<fresh, bboxVars, ownerVars>>

\* p = scene.getVertex(data, index)
GetVertex(data, index) ==
  /\ pc = "idle"
  /\ ret' = [NoRet EXCEPT !.ptr = getVertex(scene, data, index), !.data = data, !.index = index]
  /\ op' = "getVertex"
  /\ pc' = "done"
  /\ UNCHANGED <<scene, fresh, bboxVars, ownerVars>>

\* p = scene.getVertexAttribute(data, index)
GetVertexAttribute(data, index) ==
  /\ pc = "idle"
  /\ ret' = [NoRet EXCEPT !.ptr = getVertexAttribute(scene, data, index), !.data = data, !.index = index]
  /\ op' = "getVertexAttribute"
  /\ pc' = "done"
  /\ UNCHANGED <<scene, fresh, bboxVars, ownerVars>>

\* The call has returned; the caller goes on.
SceneReturn ==
  /\ pc = "done"
  /\ pc' = "idle"
  /\ op' = "none"
  /\ ret' = NoRet
  /\ UNCHANGED <<scene, fresh, bboxVars, ownerVars>>

SceneIdle ==
  /\ scene = CadSceneCtor(<<0, 0, 0>>)
  /\ fresh = CadSceneCtor(<<0, 0, 0>>)
  /\ ret = NoRet

BBoxIdle ==
  /\ arg = NoArg
  /\ box = BBoxCtor
  /\ prev = BBoxCtor
  /\ res = BBoxCtor

OwnerInit ==
  /\ pc = "idle"
  /\ op = "none"
  /\ OwnerIdle
  /\ BBoxIdle
  /\ SceneIdle

OwnerNext ==
  \/ \E g \in Geometries : ConstructGeometry(g)
  \/ \E g \in Geometries, f \in GeometryFields : FillBuffer(g, f)
  \/ \E s \in Geometries, d \in Geometries : CopyGeometry(s, d)
  \/ \E s \in Geometries, d \in Geometries : AssignGeometry(s, d)
  \/ \E g \in Geometries : DestroyGeometry(g)

OwnerSpec == OwnerInit /\ [][OwnerNext]_vars

Init == SceneInit /\ BBoxIdle /\ OwnerIdle

Next ==
  \/ \E file \in Files, cfg \in Configs, clones \in 0..MaxClones : LoadCSF(file, cfg, clones)
  \/ Unload
  \/ \E data \in Addresses, index \in 0..MaxIndex : GetVertex(data, index)
  \/ \E data \in Addresses, index \in 0..MaxIndex : GetVertexAttribute(data, index)
  \/ SceneReturn

Spec == Init /\ [][Next]_vars

\* C6: every buffer of a Geometry or MeshletTopology is owned by exactly one
\* instance at a time and is released exactly once: no two live instances
\* hold the same buffer, no buffer is passed to free() twice, and no live
\* instance holds (and so could read) a released buffer.
C6_ExclusiveOwnership ==
  /\ \A g \in Geometries, h \in Geometries : \A f \in GeometryFields :
       (g # h /\ geometry[g].live /\ geometry[h].live /\ geometry[g][f] # 0)
         => geometry[g][f] # geometry[h][f]
  /\ \A b \in Buffers : frees[b] <= 1
  /\ \A g \in Geometries : \A f \in GeometryFields :
       (geometry[g].live /\ geometry[g][f] # 0) => heap[geometry[g][f]] = "allocated"

----------------------------------------------------------------------------
(* The BBox state machine: one BBox object and its caller.  pc = "done"    *)
(* right after a call, with op, arg and prev (the box before the call)     *)
(* describing it; the caller then goes on to its next call.                *)

BBoxInit ==
  /\ pc = "done"
  /\ op = "BBox"
  /\ arg = NoArg
  /\ box = BBoxCtor
  /\ prev = BBoxCtor
  /\ res = BBoxCtor
  /\ OwnerIdle
  /\ SceneIdle

\* BBox b;
NewBBox ==
  /\ pc = "idle"
  /\ box' = BBoxCtor
  /\ prev' = box
  /\ op' = "BBox"
  /\ arg' = NoArg
  /\ res' = BBoxCtor
  /\ pc' = "done"
  /\ UNCHANGED <<ownerVars, sceneVars>>

\* b.merge(point)
MergePoint(p) ==
  /\ pc = "idle"
  /\ box' = mergePoint(box, p)
  /\ prev' = box
  /\ op' = "mergePoint"
  /\ arg' = [NoArg EXCEPT !.point = p]
  /\ res' = BBoxCtor
  /\ pc' = "done"
  /\ UNCHANGED <<ownerVars, sceneVars>>

\* b.merge(bbox)
MergeBBox(b) ==
  /\ pc = "idle"
  /\ box' = mergeBBox(box, b)
  /\ prev' = box
  /\ op' = "mergeBBox"
  /\ arg' = [NoArg EXCEPT !.bbox = b]
  /\ res' = BBoxCtor
  /\ pc' = "done"
  /\ UNCHANGED <<ownerVars, sceneVars>>

\* r = b.transformed(matrix, dim): const, b is left as it is.  The model
\* covers the calls whose arithmetic stays finite: the corners of the empty
\* box are +-FLT_MAX and their products overflow.
Transformed(m, d) ==
  /\ pc = "idle"
  /\ Finite(box)
  /\ res' = transformed(box, m, d)
  /\ box' = box
  /\ prev' = box
  /\ op' = "transformed"
  /\ arg' = [NoArg EXCEPT !.matrix = m, !.dim = d]
  /\ pc' = "done"
  /\ UNCHANGED <<ownerVars, sceneVars>>

\* The call has returned; the caller goes on.
BBoxReturn ==
  /\ pc = "done"
  /\ pc' = "idle"
  /\ op' = "none"
  /\ arg' = NoArg
  /\ prev' = BBoxCtor
  /\ res' = BBoxCtor
  /\ box' = box
  /\ UNCHANGED <<ownerVars, sceneVars>>

BBoxNext ==
  \/ NewBBox
  \/ \E p \in Points : MergePoint(p)
  \/ \E b \in ArgBoxes : MergeBBox(b)
  \/ \E m \in Matrices, d \in Dims : Transformed(m, d)
  \/ BBoxReturn

BBoxSpec == BBoxInit /\ [][BBoxNext]_vars

----------------------------------------------------------------------------
(* Claims about BBox, checked under BBoxSpec *)

Contains(b, p) == \A i \in Axes : b.min[i] <= p[i] /\ p[i] <= b.max[i]

\* v is the least of x and y: a lower bound of both that is one of them.
IsLeast(v, x, y) == v <= x /\ v <= y /\ v \in {x, y}

\* v is the greatest of x and y.
IsGreatest(v, x, y) == v >= x /\ v >= y /\ v \in {x, y}

AfterCall(name) == pc = "done" /\ op = name

\* C1: after A.merge(B), in each of the four components the new A.min is the
\* minimum of the old A.min and B.min and the new A.max is the maximum of the
\* old A.max and B.max.
C1_MergeBoxExact ==
  AfterCall("mergeBBox") =>
    \A i \in Axes :
      /\ IsLeast(box.min[i], prev.min[i], arg.bbox.min[i])
      /\ IsGreatest(box.max[i], prev.max[i], arg.bbox.max[i])

\* C1 witness: a merge of two valid boxes neither of which contains the other.
C1_Witness ==
  /\ AfterCall("mergeBBox")
  /\ Valid(prev) /\ Valid(arg.bbox)
  /\ box # prev /\ box # arg.bbox

\* All corners of a box over the four components x, y, z and w.
Corners4(b) ==
  {<<x, y, z, w>> : x \in {b.min[1], b.max[1]}, y \in {b.min[2], b.max[2]},
                    z \in {b.min[3], b.max[3]}, w \in {b.min[4], b.max[4]}}

\* The corners of a box over x, y and z, with w taken from min.
Corners3(b) == {c \in Corners4(b) : c[4] = b.min[4]}

\* C2 as claimed: A.transformed(M, 3) contains M*c for every corner c of A
\* over x, y, z and w.
C2_Original ==
  (AfterCall("transformed") /\ arg.dim = 3) =>
    \A c \in Corners4(box) : Contains(res, MatVec(arg.matrix, c))

\* C2 as amended: A.transformed(M, 3) contains M*c for every corner c of A
\* that takes x, y and z from either A.min or A.max and w from A.min.
C2_ContainsCorners3 ==
  (AfterCall("transformed") /\ arg.dim = 3) =>
    \A c \in Corners3(box) : Contains(res, MatVec(arg.matrix, c))

\* C2 witness: a box with extent in x, y and z under a matrix that is not
\* axis-aligned.
C2_Witness ==
  /\ AfterCall("transformed") /\ arg.dim = 3
  /\ arg.matrix \in OtherMatrices
  /\ \A i \in 1..3 : box.min[i] < box.max[i]

\* The matrix is an axis-aligned scaling and/or translation.
IsScaleTrans(m) ==
  /\ \A r \in 1..3 : \A c \in 1..3 : r # c => m[r][c] = 0
  /\ m[4] = <<0, 0, 0, 1>>

\* C3 as claimed: for a valid box A and an axis-aligned scaling/translation M
\* with scale factors of any sign, A.transformed(M, 3) is the box from
\* M*A.min to M*A.max.
C3_Original ==
  (AfterCall("transformed") /\ arg.dim = 3 /\ Valid(box) /\ IsScaleTrans(arg.matrix)) =>
    /\ res.min = MatVec(arg.matrix, box.min)
    /\ res.max = MatVec(arg.matrix, box.max)

\* C3 as amended: for a valid box A with A.min.w = A.max.w and an axis-aligned
\* scaling/translation M with scale factors >= 0, A.transformed(M, 3) is the
\* box from M*A.min to M*A.max.
C3_ScaleTransExact ==
  ( /\ AfterCall("transformed") /\ arg.dim = 3
    /\ Valid(box) /\ box.min[4] = box.max[4]
    /\ IsScaleTrans(arg.matrix)
    /\ \A i \in 1..3 : arg.matrix[i][i] >= 0 ) =>
    /\ res.min = MatVec(arg.matrix, box.min)
    /\ res.max = MatVec(arg.matrix, box.max)

\* C3 witness: a box with extent in x, y and z at w = 1, scaled by 2 along
\* each axis and translated.
C3_Witness ==
  /\ AfterCall("transformed") /\ arg.dim = 3
  /\ \A i \in 1..3 : box.min[i] < box.max[i]
  /\ box.min[4] = 1 /\ box.max[4] = 1
  /\ arg.matrix = ScaleTrans(<<2, 2, 2>>, <<1, -1, 2>>)

IsMerge == pc = "done" /\ op \in {"mergePoint", "mergeBBox"}

\* C4 as claimed: a default-constructed box has min at the positive and max
\* at the negative sentinel, and after any merge, with a point or with any
\* box, the box is valid.
C4_Original ==
  /\ AfterCall("BBox") =>
       \A i \in Axes : box.min[i] = FLT_MAX /\ box.max[i] = -FLT_MAX /\ box.min[i] > box.max[i]
  /\ IsMerge => Valid(box)

\* C4 as amended: a default-constructed box has min at the positive and max
\* at the negative sentinel; a merge with a point or with a valid box leaves
\* the box valid, and any merge leaves a valid box valid.
C4_ValidAfterMerge ==
  /\ AfterCall("BBox") =>
       \A i \in Axes : box.min[i] = FLT_MAX /\ box.max[i] = -FLT_MAX /\ box.min[i] > box.max[i]
  /\ AfterCall("mergePoint") => Valid(box)
  /\ (AfterCall("mergeBBox") /\ Valid(arg.bbox)) => Valid(box)
  /\ (IsMerge /\ Valid(prev)) => Valid(box)

\* C4 witness: the first merge into a default-constructed box.
C4_Witness == IsMerge /\ prev = BBoxCtor /\ Valid(box)

\* The points with every coordinate at either end of the range.
OrderPoints == {p \in Points : \A i \in Axes : p[i] \in {0, MaxCoord}}

\* The empty box and the boxes from the origin or up to the top corner that
\* end at such a point.
OrderBoxes == {BBoxCtor} \cup {Hull(p, q) : p \in {Zero, Top}, q \in OrderPoints}

\* The merge operations alone, with the box arguments drawn from OrderBoxes.
BBoxMergeNext ==
  \/ NewBBox
  \/ \E p \in Points : MergePoint(p)
  \/ \E b \in OrderBoxes : MergeBBox(b)
  \/ BBoxReturn

BBoxMergeSpec == BBoxInit /\ [][BBoxMergeNext]_vars

\* C5: merge is commutative and associative.  After A.merge(X): B.merge(A)
\* leaves the same box as A.merge(B); merging X and then Y gives the same box
\* as merging Y and then X, for points and boxes; and merging C into
\* (A merged with B) equals merging (B merged with C) into A.
C5_MergeOrder ==
  /\ AfterCall("mergeBBox") =>
       /\ box = mergeBBox(arg.bbox, prev)
       /\ \A c \in OrderBoxes :
            /\ mergeBBox(box, c) = mergeBBox(mergeBBox(prev, c), arg.bbox)
            /\ mergeBBox(box, c) = mergeBBox(prev, mergeBBox(arg.bbox, c))
       /\ \A q \in OrderPoints : mergePoint(box, q) = mergeBBox(mergePoint(prev, q), arg.bbox)
  /\ AfterCall("mergePoint") =>
       /\ \A q \in OrderPoints : mergePoint(box, q) = mergePoint(mergePoint(prev, q), arg.point)
       /\ \A c \in OrderBoxes : mergeBBox(box, c) = mergePoint(mergeBBox(prev, c), arg.point)

\* C5 witness: a merge of two different valid boxes that changes the box.
C5_Witness ==
  /\ AfterCall("mergeBBox")
  /\ Valid(prev) /\ Valid(arg.bbox)
  /\ prev # arg.bbox /\ box # prev

----------------------------------------------------------------------------
(* Claims about CadScene, checked under Spec *)

\* The Empty state: every container empty, every size and count field 0.
IsEmpty(s) ==
  /\ ContainersEmpty(s)
  /\ s.m_vboSize = 0 /\ s.m_iboSize = 0 /\ s.m_meshSize = 0
  /\ s.m_numGeometryParts = 0 /\ s.m_numObjectParts = 0
  /\ s.m_numOrigGeometries = 0 /\ s.m_numOrigMatrices = 0 /\ s.m_numOrigObjects = 0

\* The containers and the size and count fields of a scene.
Content(s) ==
  << s.m_materials, s.m_bboxes, s.m_geometry, s.m_matrices, s.m_objects,
     s.m_vboSize, s.m_iboSize, s.m_meshSize, s.m_numGeometryParts, s.m_numObjectParts,
     s.m_numOrigGeometries, s.m_numOrigMatrices, s.m_numOrigObjects >>

\* C7: unload() always ends in the Empty state, this state equals the state
\* of a freshly constructed scene, and a second unload() changes nothing.
C7_UnloadIsFresh ==
  AfterCall("unload") =>
    /\ IsEmpty(scene)
    /\ Content(scene) = Content(fresh)
    /\ unload(scene) = scene

\* C8: when a load fails, loadCSF returns false and the scene is in the
\* Empty state afterwards, with nothing built before the failure left.
C8_FailedLoadIsEmpty ==
  (AfterCall("loadCSF") /\ ~ret.ok) => IsEmpty(scene)

\* C8 witness: a load that fails at the second geometry, after the materials
\* and the first geometry were built.
C8_Witness ==
  /\ AfterCall("loadCSF") /\ ~ret.ok
  /\ ret.status = "ok" /\ ret.failAt = 2

\* C9: getVertexSize() is 8 with fp16 and 16 without, getVertexAttributeSize()
\* is 8*(1+extraAttributes) with fp16 and 16*(1+extraAttributes) without,
\* and getVertex / getVertexAttribute return data advanced by index times
\* that stride.
C9_Strides ==
  LET cfg == scene.m_cfg
      vertex == IF cfg.fp16 THEN 8 ELSE 16
      attribute == IF cfg.fp16 THEN 8 * (1 + cfg.extraAttributes) ELSE 16 * (1 + cfg.extraAttributes)
  IN  /\ getVertexSize(scene) = vertex
      /\ getVertexAttributeSize(scene) = attribute
      /\ AfterCall("getVertex") => ret.ptr = ret.data + ret.index * vertex
      /\ AfterCall("getVertexAttribute") => ret.ptr = ret.data + ret.index * attribute

\* C9 witness: getVertexAttribute at an index above 0 on a scene loaded with
\* fp16 and an extra attribute.
C9_Witness ==
  /\ AfterCall("getVertexAttribute")
  /\ scene.m_cfg.fp16 /\ scene.m_cfg.extraAttributes > 0
  /\ ret.index > 0 /\ ret.data > 0

\* C10: a Material and a MatrixNode are 256 bytes each, whatever they hold:
\* the materials and matrices of a scene lie at multiples of 256 in their
\* arrays and the arrays are 256 bytes per element long.
C10_RecordSizes ==
  /\ SizeofMaterial = 256
  /\ SizeofMatrixNode = 256
  /\ \A i \in DOMAIN scene.m_materials : ((i - 1) * SizeofMaterial) % 256 = 0
  /\ \A i \in DOMAIN scene.m_matrices : ((i - 1) * SizeofMatrixNode) % 256 = 0
  /\ Len(scene.m_materials) * SizeofMaterial = 256 * Len(scene.m_materials)
  /\ Len(scene.m_matrices) * SizeofMatrixNode = 256 * Len(scene.m_matrices)

\* C10 witness: a loaded scene with two materials of different content and
\* more than one matrix.
C10_Witness ==
  /\ Len(scene.m_materials) >= 2
  /\ scene.m_materials[1] # scene.m_materials[2]
  /\ Len(scene.m_matrices) >= 2

====
